---- MODULE Spec2Model ----
(***************************************************************************)
(* A model of auroravfs.c: one AuroraFile handle, the process-wide         *)
(* mainDbName, the application buffer behind ptr=, the delegate (pReal)    *)
(* handle of the wrapped VFS and the calls made to the sls_wal facility    *)
(* (sas_trace_start, sas_trace_commit).                                    *)
(*                                                                         *)
(* Conventions.                                                            *)
(*  - A file name zName is a record [path, query]; query is the parsed     *)
(*    query string, a sequence of <<key, value>> pairs in the order they   *)
(*    were written.  In memory the name is the path, a terminator and then *)
(*    the parameters, so strcpy, strlen and strcmp see the path only       *)
(*    (CStr) while sqlite3_uri_int64 reads the parameters behind it.       *)
(*  - mem is the content of the application buffer, a function over        *)
(*    0 .. szMax-1 (the bytes the handle may legally touch).               *)
(*  - The build is LP64: size_t and sqlite3_uint64 are unsigned 64-bit, so *)
(*    a comparison of a size_t with a sqlite3_int64 is made unsigned.      *)
(*    UGT is that comparison on two's complement values.                   *)
(*  - A memcpy or memset that leaves the buffer is undefined behaviour:    *)
(*    the model takes both outcomes, the process dying (pc = "crashed",    *)
(*    the call never returns) and the in-range bytes being written while   *)
(*    the out-of-range bytes land outside the modelled memory.  A copy     *)
(*    with a negative length (about 2^64 bytes) can only fault.            *)
(*  - last is the record of the latest call: its inputs (for a write and  *)
(*    a truncate also the size it found, sz0), the status it returned and  *)
(*    the calls it made to the collaborators.                              *)
(*  - Names are values: the copies made with sqlite3_malloc(strlen(zName)) *)
(*    and strcpy (lines 489-490, 497-498), which write the terminator one  *)
(*    byte past the allocation, are taken to succeed.                      *)
(*  - owed, scn, recorded and snapFailed are ghosts: they record history   *)
(*    and steer nothing.                                                   *)
(***************************************************************************)
EXTENDS Integers, Sequences, FiniteSets, TLC

VARIABLES
    pc,           \* the handle: "closed" | "open" (pMethods set) | "crashed"
    p,            \* the AuroraFile: isAurMmap, sz, szMax, aData (the address),
                  \* szWritten, szThreshold, bCkptOnSync, fd, fileName
    mem,          \* content of the buffer p.aData points to
    mainDbName,   \* static char *mainDbName: <<>> (NULL) or <<the string>>
    realOpen,     \* the delegate handle pReal is open in the wrapped VFS
    owed,         \* ghost: bytes of accepted writes since the last successful commit
    scn,          \* ghost: progress along the scenario of section 8 (-1: not on it)
    recorded,     \* ghost: every string mainDbName has held
    snapFailed,   \* ghost: a Write of this handle returned SnapshotError and no
                  \* commit has succeeded since
    last          \* the latest call

vars == <<pc, p, mem, mainDbName, realOpen, owed, scn, recorded, snapFailed, last>>

-----------------------------------------------------------------------------
(* Bounds of the model *)

MaxCap == 2          \* largest max= / maxsz= value of the small URIs
MaxThreshold == 2    \* largest threshold= value of the small URIs
ScnMaxWritten == 130 \* cap on szWritten under the scenario's specification

MaxAmt == MaxCap                     \* largest iAmt of a write or read
MaxWritten == MaxThreshold + MaxCap  \* cap on szWritten (writes passing it are not issued)
Bytes == {0, 255}                    \* the byte values written and found in buffers

(* Program constants *)
SQLITE_OPEN_MAIN_DB == 256

Min(S) == CHOOSE x \in S : \A y \in S : x <= y
Max(a, b) == IF a > b THEN a ELSE b

-----------------------------------------------------------------------------
(* sqlite3_uri_int64(zName, key, dflt): the value of the first key= of the
   query string, dflt when there is none. *)
UriInt64(zName, key, dflt) ==
    LET q == zName.query
        idx == {i \in 1 .. Len(q) : q[i][1] = key}
    IN  IF idx = {} THEN dflt ELSE q[Min(idx)][2]

(* a > b after both sqlite3_int64 values are converted to unsigned 64-bit *)
UGT(a, b) == IF (a < 0) = (b < 0) THEN a > b ELSE a < 0

(* flags & bit, for a single-bit mask *)
FlagAnd(flags, bit) == IF (flags \div bit) % 2 = 1 THEN bit ELSE 0

(* Status values *)
DelegRc == {"OK", "IOERR"}     \* what a call of the wrapped VFS may return

(* The record of a call before its fields are filled in *)
NoCall ==
    [op |-> "none", rc |-> "OK", name |-> <<>>, path |-> "", flags |-> 0,
     ofs |-> 0, amt |-> 0,
     data |-> <<>>, commits |-> 0, commitOk |-> FALSE, starts |-> 0,
     startOk |-> FALSE, sz0 |-> 0,
     real |-> "none", realRc |-> "none", res |-> 0, realRes |-> 0]

(* the C string at zName: the bytes up to the first terminator *)
CStr(zName) == zName.path

(* memset of the whole AuroraFile to 0 (line 451) *)
ZeroFile ==
    [isAurMmap |-> 0, sz |-> 0, szMax |-> 0, aData |-> 0, szWritten |-> 0,
     szThreshold |-> 0, bCkptOnSync |-> FALSE, fd |-> 0, fileName |-> <<>>]

-----------------------------------------------------------------------------
(* mutant: the capacity check is off by one *)
WriteFull_OffByOne(szEnd, max) == UGT(szEnd, max + 1)

(* auroraWrite, line 205: the write does not fit *)
WriteFull(szEnd, max) == UGT(szEnd, max)

(* auroraWrite, line 209: the size after the write *)
WriteSize(size, szEnd) == IF UGT(szEnd, size) THEN szEnd ELSE size

(* memcpy(aData + iOfst, z, Len(z)), for the bytes that fall in the buffer *)
MemCpy(m, iOfst, z) ==
    [i \in DOMAIN m |->
        IF i >= iOfst /\ i < iOfst + Len(z) THEN z[i - iOfst + 1] ELSE m[i]]

(* mutant: the grown range is not cleared *)
MemSet_Skipped(m, from, n) == m

(* memset(aData + from, 0, n), for the bytes that fall in the buffer *)
MemSet(m, from, n) ==
    [i \in DOMAIN m |-> IF i >= from /\ i < from + n THEN 0 ELSE m[i]]

(* the n bytes at aData + from lie in the buffer *)
InBuffer(m, from, n) ==
    n = 0 \/ (n > 0 /\ from >= 0 /\ from + n <= Cardinality(DOMAIN m))

(* mutant: the commit is triggered on reaching the threshold *)
OverThreshold_AtLeast(written, threshold) == written >= threshold

(* auroraWrite, line 219: the counter went over the threshold
   (sqlite_int64 against sqlite_uint64: unsigned) *)
OverThreshold(written, threshold) == UGT(written, threshold)

(* mutant: every sync checkpoints *)
SyncSkips_Never(ckptOnSync, written) == FALSE

(* mutant: bCkptOnSync is not consulted *)
SyncSkips_FlagIgnored(ckptOnSync, written) == written = 0

(* auroraSync, line 260: nothing to checkpoint *)
SyncSkips(ckptOnSync, written) == ~ckptOnSync \/ written = 0

(* auroraTruncate, line 239 and 240 (signed comparisons) *)
TruncGrows(size, cur) == size > cur
TruncFull(size, max) == size > max

(* mutant: a shrinking truncate clears the bytes it cuts off *)
TruncMem_ClearsCut(m, cur, size) ==
    IF TruncGrows(size, cur) THEN MemSet(m, cur, size - cur)
    ELSE MemSet(m, size, cur - size)

(* auroraTruncate, lines 239-244: the buffer after a truncate that returns *)
TruncMem(m, cur, size) ==
    IF TruncGrows(size, cur) THEN MemSet(m, cur, size - cur) ELSE m

(* ghost: progress along the scenario of section 8 of the specification *)
ScnName ==
    [path |-> "main.db",
     query |-> << <<"ptr", 1>>, <<"sz", 100>>, <<"maxsz", 1000>>,
                  <<"fd", 7>>, <<"threshold", 50>> >>]
ScnWrites == << <<0, 60>>, <<60, 10>>, <<70, 45>> >>
ScnStep(s, l) ==
    IF l.op = "open"
    THEN IF l.rc = "OK" /\ l.name = <<ScnName>> /\ FlagAnd(l.flags, SQLITE_OPEN_MAIN_DB) # 0
         THEN 0 ELSE -1
    ELSE IF /\ s \in 0 .. 2
            /\ l.op = "write"
            /\ <<l.ofs, l.amt>> = ScnWrites[s + 1]
            /\ l.rc # "CRASH"
            /\ (l.commits = 0 \/ l.commitOk)
         THEN s + 1
         ELSE -1
(* ghost: the strings mainDbName has held so far *)
Recorded(r, name) == r \cup {name[i] : i \in DOMAIN name}
(* ghost: a Write returned SnapshotError and no commit has succeeded since *)
SnapFailed(f, l) ==
    IF l.op = "open" THEN FALSE
    ELSE IF l.commits = 1 /\ l.commitOk THEN FALSE
    ELSE IF l.op = "write" /\ l.rc = "SNAPSHOT" THEN TRUE
    ELSE f
Monitor ==
    /\ scn' = ScnStep(scn, last')
    /\ recorded' = Recorded(recorded, mainDbName')
    /\ snapFailed' = SnapFailed(snapFailed, last')

-----------------------------------------------------------------------------
(* auroraOpen: the AuroraFile, the status and the collaborator calls of an open.
   startOk: sas_trace_start returned 0; realRc: status of the wrapped xOpen. *)
OpenSzMax(zName, s) == UriInt64(zName, "max", s)

(* mutant: the name is recorded once the wrapped xOpen has succeeded *)
NameRecorded_AfterOpen(startOk, realRc) == startOk /\ realRc = "OK"

(* mainDbName is set (lines 489-490) once sas_trace_start has succeeded and
   before the wrapped xOpen is called *)
NameRecorded(startOk, realRc) == startOk

OpenResult(zName, flags, startOk, realRc) ==
    LET mm  == FlagAnd(flags, SQLITE_OPEN_MAIN_DB)
        ptr == UriInt64(zName, "ptr", 0)
        s   == UriInt64(zName, "sz", -1)
        mx  == OpenSzMax(zName, s)
        f   == UriInt64(zName, "fd", 0)
        thr == UriInt64(zName, "threshold", 0)
        ck  == UriInt64(zName, "ckptOnSync", 1) > 0
        f0  == [ZeroFile EXCEPT !.isAurMmap = mm]
        f1  == [f0 EXCEPT !.aData = ptr]
        f2  == [f1 EXCEPT !.sz = s]
        f3  == [f2 EXCEPT !.szMax = mx]
        f4  == [f3 EXCEPT !.fd = f]
        f5  == [f4 EXCEPT !.szThreshold = thr, !.bCkptOnSync = ck]
        early(file, rc, st) ==
            [file |-> file, rc |-> rc, starts |-> st, real |-> "none",
             named |-> FALSE, buffer |-> FALSE]
    IN  IF mm # 0
        THEN IF ptr = 0 THEN early(f1, "CANTOPEN", 0)
             ELSE IF s < 0 THEN early(f2, "CANTOPEN", 0)
             ELSE IF mx < s THEN early(f3, "CANTOPEN", 0)
             ELSE IF f = 0 THEN early(f4, "CANTOPEN", 0)
             ELSE IF ~startOk THEN early(f4, "INTERNAL", 1)
             ELSE [file |-> [f5 EXCEPT !.fileName = <<CStr(zName)>>], rc |-> realRc,
                   starts |-> 1, real |-> "xOpen",
                   named |-> NameRecorded(startOk, realRc), buffer |-> TRUE]
        ELSE [file |-> [f0 EXCEPT !.fileName = <<CStr(zName)>>], rc |-> realRc,
              starts |-> 0, real |-> "xOpen", named |-> FALSE, buffer |-> FALSE]

(* the contents an application buffer of n bytes may hold when it is handed over *)
SmallBuf == 3
InitContents(n) ==
    IF n <= SmallBuf THEN [0 .. n - 1 -> Bytes]
    ELSE {[i \in 0 .. n - 1 |-> b] : b \in Bytes}

OpenCalls(zName, flags) ==
    LET r == OpenResult(zName, flags, TRUE, "OK") IN
    [start |-> r.starts = 1, real |-> r.real = "xOpen"]

auroraOpen(zName, flags) ==
    \E startOk \in (IF OpenCalls(zName, flags).start THEN BOOLEAN ELSE {TRUE}) :
    \E realRc \in (IF startOk /\ OpenCalls(zName, flags).real THEN DelegRc ELSE {"OK"}) :
    LET r == OpenResult(zName, flags, startOk, realRc) IN
    /\ pc = "closed"
    /\ p' = r.file
    /\ pc' = IF r.rc = "OK" THEN "open" ELSE "closed"
    /\ mainDbName' = IF r.named THEN <<CStr(zName)>> ELSE mainDbName
    /\ realOpen' = (r.real = "xOpen" /\ r.rc = "OK")
    /\ mem' \in (IF r.buffer THEN InitContents(r.file.szMax) ELSE {<<>>})
    /\ owed' = 0
    /\ last' = [NoCall EXCEPT !.op = "open", !.rc = r.rc, !.name = <<zName>>,
                              !.flags = flags, !.starts = r.starts,
                              !.startOk = (r.starts = 1 /\ startOk), !.real = r.real,
                              !.realRc = IF r.real = "xOpen" THEN realRc ELSE "none"]
    /\ Monitor

-----------------------------------------------------------------------------
(* mutant: the counter is reset before the commit's status is looked at *)
CommitReset_Always(written, commitOk) == 0

(* szWritten after sas_trace_commit returned (lines 222-225, 264-267) *)
CommitReset(written, commitOk) == IF commitOk THEN 0 ELSE written

(* mutant: a threshold of 0 is a threshold like any other *)
WriteCkptOff_Never(threshold) == FALSE

(* a 0 threshold turns off the checkpointing of auroraWrite (lines 216-217) *)
WriteCkptOff(threshold) == threshold = 0

(* mutant: the status of sas_trace_commit is not looked at *)
CommitRc_Ignored(commitOk) == "OK"

(* status after sas_trace_commit returned *)
CommitRc(commitOk) == IF commitOk THEN "OK" ELSE "SNAPSHOT"

(* auroraWrite.  z: the bytes (Len(z) = iAmt when iAmt >= 0).  The environment
   decides realRc (status of the wrapped xWrite), commitOk (sas_trace_commit
   returned >= 0) and fault (the outcome of a memcpy that leaves the buffer). *)
auroraWrite(z, iAmt, iOfst) ==
    LET szEnd    == iOfst + iAmt
        size1    == WriteSize(p.sz, szEnd)
        written1 == p.szWritten + iAmt
        over     == ~WriteCkptOff(p.szThreshold)
                    /\ OverThreshold(written1, p.szThreshold)
        call     == [NoCall EXCEPT !.op = "write", !.ofs = iOfst, !.amt = iAmt,
                                   !.data = z, !.sz0 = p.sz]
    IN
    /\ pc = "open"
    /\ IF p.isAurMmap = 0
       THEN /\ \E realRc \in DelegRc :
                    last' = [call EXCEPT !.rc = realRc, !.real = "xWrite",
                                 !.realRc = realRc]
            /\ UNCHANGED <<pc, p, mem, owed>>
       ELSE IF WriteFull(szEnd, p.szMax)
       THEN /\ last' = [call EXCEPT !.rc = "FULL"]
            /\ UNCHANGED <<pc, p, mem, owed>>
       ELSE \E fault \in (IF InBuffer(mem, iOfst, iAmt) THEN {FALSE}
                          ELSE IF iAmt < 0 THEN {TRUE} ELSE BOOLEAN) :
            IF fault
            THEN /\ pc' = "crashed"
                 /\ p' = [p EXCEPT !.sz = size1]
                 /\ last' = [call EXCEPT !.rc = "CRASH"]
                 /\ UNCHANGED <<mem, owed>>
            ELSE \E commitOk \in (IF over THEN BOOLEAN ELSE {FALSE}) :
                 /\ mem' = MemCpy(mem, iOfst, z)
                 /\ p' = [p EXCEPT !.sz = size1,
                                   !.szWritten = IF over
                                                 THEN CommitReset(written1, commitOk)
                                                 ELSE written1]
                 /\ owed' = IF over /\ commitOk THEN 0 ELSE owed + iAmt
                 /\ last' = [call EXCEPT !.rc = IF over THEN CommitRc(commitOk) ELSE "OK",
                                         !.commits = IF over THEN 1 ELSE 0,
                                         !.commitOk = commitOk]
                 /\ UNCHANGED pc
    /\ UNCHANGED <<mainDbName, realOpen>>
    /\ Monitor

(* auroraTruncate *)
auroraTruncate(size) ==
    LET call == [NoCall EXCEPT !.op = "truncate", !.amt = size, !.sz0 = p.sz] IN
    /\ pc = "open"
    /\ IF p.isAurMmap = 0
       THEN /\ \E realRc \in DelegRc :
                    last' = [call EXCEPT !.rc = realRc, !.real = "xTruncate",
                                 !.realRc = realRc]
            /\ UNCHANGED <<pc, p, mem>>
       ELSE IF TruncGrows(size, p.sz) /\ TruncFull(size, p.szMax)
       THEN /\ last' = [call EXCEPT !.rc = "FULL"]
            /\ UNCHANGED <<pc, p, mem>>
       ELSE \E fault \in (IF TruncGrows(size, p.sz) /\ ~InBuffer(mem, p.sz, size - p.sz)
                          THEN BOOLEAN ELSE {FALSE}) :
            IF fault
            THEN /\ pc' = "crashed"
                 /\ last' = [call EXCEPT !.rc = "CRASH"]
                 /\ UNCHANGED <<p, mem>>
            ELSE /\ mem' = TruncMem(mem, p.sz, size)
                 /\ p' = [p EXCEPT !.sz = size]
                 /\ last' = [call EXCEPT !.rc = "OK"]
                 /\ UNCHANGED pc
    /\ UNCHANGED <<mainDbName, realOpen, owed>>
    /\ Monitor

(* auroraSync *)
auroraSync ==
    LET call == [NoCall EXCEPT !.op = "sync"] IN
    /\ pc = "open"
    /\ IF p.isAurMmap = 0
       THEN /\ \E realRc \in DelegRc :
                    last' = [call EXCEPT !.rc = realRc, !.real = "xSync",
                                 !.realRc = realRc]
            /\ UNCHANGED <<p, owed>>
       ELSE IF SyncSkips(p.bCkptOnSync, p.szWritten)
       THEN /\ last' = [call EXCEPT !.rc = "OK"]
            /\ UNCHANGED <<p, owed>>
       ELSE \E commitOk \in BOOLEAN :
            /\ p' = [p EXCEPT !.szWritten = CommitReset(p.szWritten, commitOk)]
            /\ owed' = IF commitOk THEN 0 ELSE owed
            /\ last' = [call EXCEPT !.rc = CommitRc(commitOk), !.commits = 1,
                                    !.commitOk = commitOk]
    /\ UNCHANGED <<pc, mem, mainDbName, realOpen>>
    /\ Monitor

(* auroraRead, for the reads the engine may issue (inside the buffer) *)
auroraRead(iAmt, iOfst) ==
    LET call == [NoCall EXCEPT !.op = "read", !.ofs = iOfst, !.amt = iAmt] IN
    /\ pc = "open"
    /\ IF p.isAurMmap = 0
       THEN \E realRc \in DelegRc :
                last' = [call EXCEPT !.rc = realRc, !.real = "xRead",
                                 !.realRc = realRc]
       ELSE /\ iAmt >= 0 /\ InBuffer(mem, iOfst, iAmt)
            /\ last' = [call EXCEPT !.rc = "OK",
                                    !.data = [i \in 1 .. iAmt |-> mem[iOfst + i - 1]]]
    /\ UNCHANGED <<pc, p, mem, mainDbName, realOpen, owed>>
    /\ Monitor

(* auroraFileSize *)
auroraFileSize ==
    LET call == [NoCall EXCEPT !.op = "filesize"] IN
    /\ pc = "open"
    /\ IF p.isAurMmap = 0
       THEN \E realRc \in DelegRc :
                last' = [call EXCEPT !.rc = realRc, !.real = "xFileSize",
                                 !.realRc = realRc]
       ELSE last' = [call EXCEPT !.rc = "OK", !.res = p.sz]
    /\ UNCHANGED <<pc, p, mem, mainDbName, realOpen, owed>>
    /\ Monitor

(* auroraLock and auroraUnlock: the status of the wrapped call is dropped *)
auroraLock ==
    LET call == [NoCall EXCEPT !.op = "lock"] IN
    /\ pc = "open"
    /\ IF p.isAurMmap = 0
       THEN \E realRc \in DelegRc :
                last' = [call EXCEPT !.rc = "OK", !.real = "xLock", !.realRc = realRc]
       ELSE last' = [call EXCEPT !.rc = "OK"]
    /\ UNCHANGED <<pc, p, mem, mainDbName, realOpen, owed>>
    /\ Monitor

auroraUnlock ==
    LET call == [NoCall EXCEPT !.op = "unlock"] IN
    /\ pc = "open"
    /\ IF p.isAurMmap = 0
       THEN \E realRc \in DelegRc :
                last' = [call EXCEPT !.rc = "OK", !.real = "xUnlock", !.realRc = realRc]
       ELSE last' = [call EXCEPT !.rc = "OK"]
    /\ UNCHANGED <<pc, p, mem, mainDbName, realOpen, owed>>
    /\ Monitor

(* auroraClose; the engine drops the handle (pMethods) whatever xClose returns *)
auroraClose ==
    LET call == [NoCall EXCEPT !.op = "close"] IN
    /\ pc = "open"
    /\ pc' = "closed"
    /\ IF p.isAurMmap = 0
       THEN /\ \E realRc \in DelegRc :
                    last' = [call EXCEPT !.rc = realRc, !.real = "xClose",
                                 !.realRc = realRc]
            /\ realOpen' = FALSE
       ELSE /\ last' = [call EXCEPT !.rc = "OK"]
            /\ UNCHANGED realOpen
    /\ UNCHANGED <<p, mem, mainDbName, owed>>
    /\ Monitor

-----------------------------------------------------------------------------
(* The methods that touch neither the buffer nor the counters.  Their
   arguments (eLock, iPg, pgsz, deleteFlag, ...) are handed to the wrapped
   method as they are and decide nothing here, so they are not drawn. *)

(* auroraCheckReservedLock *)
auroraCheckReservedLock ==
    LET call == [NoCall EXCEPT !.op = "checkReservedLock"] IN
    /\ pc = "open"
    /\ IF p.isAurMmap = 0
       THEN \E realRc \in DelegRc, realRes \in {0, 1} :
                last' = [call EXCEPT !.rc = realRc, !.res = realRes,
                                     !.real = "xCheckReservedLock",
                                     !.realRc = realRc, !.realRes = realRes]
       ELSE last' = [call EXCEPT !.rc = "OK", !.res = 0]
    /\ UNCHANGED <<pc, p, mem, mainDbName, realOpen, owed>>
    /\ Monitor

SQLITE_FCNTL_VFSNAME == 12

(* auroraFileControl; data is the string "aurora(%p,%lld)" by its arguments *)
auroraFileControl(op) ==
    LET call == [NoCall EXCEPT !.op = "fileControl", !.flags = op] IN
    /\ pc = "open"
    /\ IF p.isAurMmap = 0
       THEN \E realRc \in DelegRc \cup {"NOTFOUND"} :
                last' = [call EXCEPT !.rc = realRc, !.real = "xFileControl",
                                     !.realRc = realRc]
       ELSE IF op = SQLITE_FCNTL_VFSNAME
       THEN last' = [call EXCEPT !.rc = "OK", !.data = <<p.aData, p.sz>>]
       ELSE last' = [call EXCEPT !.rc = "NOTFOUND"]
    /\ UNCHANGED <<pc, p, mem, mainDbName, realOpen, owed>>
    /\ Monitor

(* auroraSectorSize returns a number of bytes, not a status: res *)
auroraSectorSize ==
    LET call == [NoCall EXCEPT !.op = "sectorSize", !.rc = "none"] IN
    /\ pc = "open"
    /\ IF p.isAurMmap = 0
       THEN \E realRes \in {512, 4096} :
                last' = [call EXCEPT !.res = realRes, !.real = "xSectorSize",
                                     !.realRes = realRes]
       ELSE last' = [call EXCEPT !.res = 1024]
    /\ UNCHANGED <<pc, p, mem, mainDbName, realOpen, owed>>
    /\ Monitor

(* auroraDeviceCharacteristics returns a mask, not a status: res.
   ATOMIC | POWERSAFE_OVERWRITE | SAFE_APPEND | SEQUENTIAL = 1 + 4096 + 512 + 1024 *)
auroraDeviceCharacteristics ==
    LET call == [NoCall EXCEPT !.op = "deviceCharacteristics", !.rc = "none"] IN
    /\ pc = "open"
    /\ IF p.isAurMmap = 0
       THEN \E realRes \in {0, 4096} :
                last' = [call EXCEPT !.res = realRes,
                                     !.real = "xDeviceCharacteristics",
                                     !.realRes = realRes]
       ELSE last' = [call EXCEPT !.res = 1 + 4096 + 512 + 1024]
    /\ UNCHANGED <<pc, p, mem, mainDbName, realOpen, owed>>
    /\ Monitor

(* mutant: the stub of auroraShmMap reports success *)
ShmMapStub_Ok == "OK"

(* what auroraShmMap returns on a Memory-Backed handle (line 378) *)
ShmMapStub == "IOERR_SHMMAP"

(* auroraShmMap *)
auroraShmMap ==
    LET call == [NoCall EXCEPT !.op = "shmMap"] IN
    /\ pc = "open"
    /\ IF p.isAurMmap = 0
       THEN \E realRc \in DelegRc :
                last' = [call EXCEPT !.rc = realRc, !.real = "xShmMap",
                                     !.realRc = realRc]
       ELSE last' = [call EXCEPT !.rc = ShmMapStub]
    /\ UNCHANGED <<pc, p, mem, mainDbName, realOpen, owed>>
    /\ Monitor

(* auroraShmLock *)
auroraShmLock ==
    LET call == [NoCall EXCEPT !.op = "shmLock"] IN
    /\ pc = "open"
    /\ IF p.isAurMmap = 0
       THEN \E realRc \in DelegRc :
                last' = [call EXCEPT !.rc = realRc, !.real = "xShmLock",
                                     !.realRc = realRc]
       ELSE last' = [call EXCEPT !.rc = "IOERR_SHMLOCK"]
    /\ UNCHANGED <<pc, p, mem, mainDbName, realOpen, owed>>
    /\ Monitor

(* auroraShmBarrier returns nothing *)
auroraShmBarrier ==
    LET call == [NoCall EXCEPT !.op = "shmBarrier", !.rc = "none"] IN
    /\ pc = "open"
    /\ IF p.isAurMmap = 0
       THEN last' = [call EXCEPT !.real = "xShmBarrier"]
       ELSE last' = call
    /\ UNCHANGED <<pc, p, mem, mainDbName, realOpen, owed>>
    /\ Monitor

(* auroraShmUnmap *)
auroraShmUnmap ==
    LET call == [NoCall EXCEPT !.op = "shmUnmap"] IN
    /\ pc = "open"
    /\ IF p.isAurMmap = 0
       THEN \E realRc \in DelegRc :
                last' = [call EXCEPT !.rc = realRc, !.real = "xShmUnmap",
                                     !.realRc = realRc]
       ELSE last' = [call EXCEPT !.rc = "OK"]
    /\ UNCHANGED <<pc, p, mem, mainDbName, realOpen, owed>>
    /\ Monitor

(* auroraFetch: res is the address stored in *pp (aData + iOfst); the address
   the wrapped xFetch stores is not followed *)
auroraFetch(iOfst, iAmt) ==
    LET call == [NoCall EXCEPT !.op = "fetch", !.ofs = iOfst, !.amt = iAmt] IN
    /\ pc = "open"
    /\ IF p.isAurMmap # 0
       THEN last' = [call EXCEPT !.rc = "OK", !.res = p.aData + iOfst]
       ELSE \E realRc \in DelegRc :
                last' = [call EXCEPT !.rc = realRc, !.real = "xFetch",
                                     !.realRc = realRc]
    /\ UNCHANGED <<pc, p, mem, mainDbName, realOpen, owed>>
    /\ Monitor

(* auroraUnfetch *)
auroraUnfetch ==
    LET call == [NoCall EXCEPT !.op = "unfetch"] IN
    /\ pc = "open"
    /\ IF p.isAurMmap # 0
       THEN last' = [call EXCEPT !.rc = "OK"]
       ELSE \E realRc \in DelegRc :
                last' = [call EXCEPT !.rc = realRc, !.real = "xUnfetch",
                                     !.realRc = realRc]
    /\ UNCHANGED <<pc, p, mem, mainDbName, realOpen, owed>>
    /\ Monitor

-----------------------------------------------------------------------------
(* mutant: any query is answered from the record once a name is recorded *)
AccessOverride_AnyName(zPath, name) == name # <<>>

(* the test of auroraAccess (line 525): mainDbName != NULL and strcmp() == 0 *)
AccessOverride(zPath, name) == name # <<>> /\ zPath = name[1]

(* what the wrapped xAccess may store in *pResOut with the status it returns *)
AccessRes(realRc) == IF realRc = "OK" THEN {0, 1} ELSE {0}

(* auroraAccess, a method of the VFS: it needs no handle *)
auroraAccess(zPath) ==
    LET call == [NoCall EXCEPT !.op = "access", !.path = zPath] IN
    /\ pc # "crashed"
    /\ IF AccessOverride(zPath, mainDbName)
       THEN last' = [call EXCEPT !.rc = "OK", !.res = 1]
       ELSE \E realRc \in DelegRc :
            \E realRes \in AccessRes(realRc) :
                last' = [call EXCEPT !.rc = realRc, !.res = realRes,
                                     !.real = "xAccess", !.realRc = realRc,
                                     !.realRes = realRes]
    /\ UNCHANGED <<pc, p, mem, mainDbName, realOpen, owed>>
    /\ Monitor

-----------------------------------------------------------------------------
(* The other methods of the VFS.  They need no handle and touch nothing of
   this module's state; what the wrapped VFS does to the file system, the
   clock or the caller's buffers is not followed. *)

(* auroraDelete: the status of the wrapped xDelete *)
auroraDelete(zPath) ==
    LET call == [NoCall EXCEPT !.op = "delete", !.path = zPath] IN
    /\ pc # "crashed"
    /\ \E realRc \in DelegRc :
            last' = [call EXCEPT !.rc = realRc, !.real = "xDelete", !.realRc = realRc]
    /\ UNCHANGED <<pc, p, mem, mainDbName, realOpen, owed>>
    /\ Monitor

(* auroraDlOpen returns a handle (res; 0 is NULL), not a status *)
auroraDlOpen ==
    LET call == [NoCall EXCEPT !.op = "dlOpen", !.rc = "none"] IN
    /\ pc # "crashed"
    /\ \E realRes \in {0, 1} :
            last' = [call EXCEPT !.res = realRes, !.real = "xDlOpen",
                                 !.realRes = realRes]
    /\ UNCHANGED <<pc, p, mem, mainDbName, realOpen, owed>>
    /\ Monitor

(* auroraDlError returns nothing *)
auroraDlError ==
    LET call == [NoCall EXCEPT !.op = "dlError", !.rc = "none"] IN
    /\ pc # "crashed"
    /\ last' = [call EXCEPT !.real = "xDlError"]
    /\ UNCHANGED <<pc, p, mem, mainDbName, realOpen, owed>>
    /\ Monitor

(* auroraDlSym returns an address (res; 0 is NULL), not a status *)
auroraDlSym ==
    LET call == [NoCall EXCEPT !.op = "dlSym", !.rc = "none"] IN
    /\ pc # "crashed"
    /\ \E realRes \in {0, 1} :
            last' = [call EXCEPT !.res = realRes, !.real = "xDlSym",
                                 !.realRes = realRes]
    /\ UNCHANGED <<pc, p, mem, mainDbName, realOpen, owed>>
    /\ Monitor

(* auroraDlClose returns nothing *)
auroraDlClose ==
    LET call == [NoCall EXCEPT !.op = "dlClose", !.rc = "none"] IN
    /\ pc # "crashed"
    /\ last' = [call EXCEPT !.real = "xDlClose"]
    /\ UNCHANGED <<pc, p, mem, mainDbName, realOpen, owed>>
    /\ Monitor

(* auroraRandomness returns the number of bytes stored (res), not a status *)
auroraRandomness(nByte) ==
    LET call == [NoCall EXCEPT !.op = "randomness", !.rc = "none", !.amt = nByte] IN
    /\ pc # "crashed"
    /\ \E realRes \in {0, nByte} :
            last' = [call EXCEPT !.res = realRes, !.real = "xRandomness",
                                 !.realRes = realRes]
    /\ UNCHANGED <<pc, p, mem, mainDbName, realOpen, owed>>
    /\ Monitor

(* auroraSleep returns the microseconds slept (res), not a status *)
auroraSleep(nMicro) ==
    LET call == [NoCall EXCEPT !.op = "sleep", !.rc = "none", !.amt = nMicro] IN
    /\ pc # "crashed"
    /\ \E realRes \in {0, nMicro} :
            last' = [call EXCEPT !.res = realRes, !.real = "xSleep",
                                 !.realRes = realRes]
    /\ UNCHANGED <<pc, p, mem, mainDbName, realOpen, owed>>
    /\ Monitor

(* auroraCurrentTime *)
auroraCurrentTime ==
    LET call == [NoCall EXCEPT !.op = "currentTime"] IN
    /\ pc # "crashed"
    /\ \E realRc \in DelegRc :
            last' = [call EXCEPT !.rc = realRc, !.real = "xCurrentTime", !.realRc = realRc]
    /\ UNCHANGED <<pc, p, mem, mainDbName, realOpen, owed>>
    /\ Monitor

(* auroraGetLastError returns an error number (res), not a status *)
auroraGetLastError ==
    LET call == [NoCall EXCEPT !.op = "getLastError", !.rc = "none"] IN
    /\ pc # "crashed"
    /\ \E realRes \in {0, 1} :
            last' = [call EXCEPT !.res = realRes, !.real = "xGetLastError",
                                 !.realRes = realRes]
    /\ UNCHANGED <<pc, p, mem, mainDbName, realOpen, owed>>
    /\ Monitor

(* auroraCurrentTimeInt64 *)
auroraCurrentTimeInt64 ==
    LET call == [NoCall EXCEPT !.op = "currentTimeInt64"] IN
    /\ pc # "crashed"
    /\ \E realRc \in DelegRc :
            last' = [call EXCEPT !.rc = realRc, !.real = "xCurrentTimeInt64", !.realRc = realRc]
    /\ UNCHANGED <<pc, p, mem, mainDbName, realOpen, owed>>
    /\ Monitor

(* sqlite3_snprintf(nOut, zOut, "%s", zPath) on a string given by its
   characters: at most nOut - 1 of them are stored, none when nOut <= 0 *)
Snprintf(nOut, zPath) ==
    IF nOut <= 0 THEN <<>>
    ELSE SubSeq(zPath, 1, IF Len(zPath) < nOut - 1 THEN Len(zPath) ELSE nOut - 1)

(* auroraFullPathname: zPath is the string by its characters, data the string
   left in zOut; the wrapped xFullPathname is not called *)
auroraFullPathname(zPath, nOut) ==
    LET call == [NoCall EXCEPT !.op = "fullPathname", !.name = <<zPath>>,
                               !.amt = nOut] IN
    /\ pc # "crashed"
    /\ last' = [call EXCEPT !.rc = "OK", !.data = Snprintf(nOut, zPath)]
    /\ UNCHANGED <<pc, p, mem, mainDbName, realOpen, owed>>
    /\ Monitor

-----------------------------------------------------------------------------
(* The inputs the model draws *)

Param(k, v) == << <<k, v>> >>
Opt(S) == {<<>>} \cup S

JournalName == [path |-> "main.db-journal", query |-> <<>>]

(* queries that pass the checks of auroraOpen *)
BigQueries ==
    { Param("ptr", 1) \o Param("sz", 1) \o Param("max", MaxCap) \o Param("fd", 7)
        \o Param("threshold", MaxThreshold),
      Param("ptr", 1) \o Param("sz", 1) \o Param("max", MaxCap) \o Param("fd", 7)
        \o Param("ckptOnSync", 0) }
SmallQueries ==
    { Param("ptr", 1) \o Param("sz", 1) \o Param("fd", 7) \o t \o c :
        t \in Opt({Param("threshold", 1)}),
        c \in Opt({Param("ckptOnSync", 0)}) }
MaxszQueries ==
    { Param("ptr", 1) \o Param("sz", 1) \o Param("maxsz", ms) \o Param("fd", 7)
        \o Param("threshold", 1) : ms \in {0, MaxCap} }
(* queries with a required parameter absent, zero or out of range *)
BadQueries ==
    { <<>>,
      Param("sz", 1) \o Param("fd", 7),
      Param("ptr", 0) \o Param("sz", 1) \o Param("fd", 7),
      Param("ptr", 1) \o Param("fd", 7),
      Param("ptr", 1) \o Param("sz", -1) \o Param("fd", 7),
      Param("ptr", 1) \o Param("sz", 1) \o Param("max", 0) \o Param("fd", 7),
      Param("ptr", 1) \o Param("sz", 1),
      Param("ptr", 1) \o Param("sz", 1) \o Param("fd", 0) }
Queries == BigQueries \cup SmallQueries \cup MaxszQueries \cup BadQueries
Names == {[path |-> "main.db", query |-> q] : q \in Queries} \cup {JournalName}
(* the names of a second open on the same AuroraFile *)
OtherName ==
    [path |-> "other.db",
     query |-> Param("ptr", 1) \o Param("sz", 1) \o Param("fd", 7)]
ReopenNames ==
    { JournalName,
      [path |-> "main.db",
       query |-> Param("ptr", 1) \o Param("sz", 1) \o Param("max", MaxCap)
                 \o Param("fd", 7) \o Param("threshold", MaxThreshold)] }
(* the paths Access is asked about *)
Paths == {"main.db", "other.db"}

OpenFlags == {262, 2054}   \* READWRITE|CREATE with MAIN_DB, with MAIN_JOURNAL
Offsets == -1 .. MaxCap
Amounts == -1 .. MaxAmt
Sizes == -1 .. MaxCap + 1
DataOf(n) == IF n <= 0 THEN {<<>>} ELSE [1 .. n -> Bytes]

-----------------------------------------------------------------------------
Init ==
    /\ pc = "closed"
    /\ p = ZeroFile
    /\ mem = <<>>
    /\ mainDbName = <<>>
    /\ realOpen = FALSE
    /\ owed = 0
    /\ scn = -1
    /\ recorded = {}
    /\ snapFailed = FALSE
    /\ last = NoCall

Open ==
    \E zName \in (IF last.op = "close" THEN ReopenNames ELSE Names),
       flags \in OpenFlags :
        /\ FlagAnd(flags, SQLITE_OPEN_MAIN_DB) = 0 => zName \in ReopenNames
        /\ auroraOpen(zName, flags)

Write ==
    \E iOfst \in Offsets, iAmt \in Amounts :
        \E z \in DataOf(iAmt) :
            /\ p.szWritten + iAmt <= MaxWritten
            /\ auroraWrite(z, iAmt, iOfst)

Truncate == \E size \in Sizes : auroraTruncate(size)

Sync == auroraSync

Read == \E iOfst \in Offsets, iAmt \in {1, MaxAmt} : auroraRead(iAmt, iOfst)

FileSize == auroraFileSize

Lock == auroraLock

Unlock == auroraUnlock

Close == auroraClose

Next ==
    \/ Open
    \/ Write
    \/ Truncate
    \/ Sync
    \/ Read
    \/ FileSize
    \/ Lock
    \/ Unlock
    \/ Close

Spec == Init /\ [][Next]_vars

-----------------------------------------------------------------------------
(* The scenario of section 8 at its own sizes: the opens, writes and syncs of
   the scenario in any order, with commits that succeed or fail. *)
ScnNameMax ==
    [path |-> "main.db",
     query |-> << <<"ptr", 1>>, <<"sz", 100>>, <<"max", 1000>>,
                  <<"fd", 7>>, <<"threshold", 50>> >>]

ScnOpen == \E zName \in {ScnName, ScnNameMax} : auroraOpen(zName, 262)

ScnWrite ==
    \E i \in 1 .. Len(ScnWrites), b \in Bytes :
        /\ p.szWritten + ScnWrites[i][2] <= ScnMaxWritten
        /\ auroraWrite([k \in 1 .. ScnWrites[i][2] |-> b], ScnWrites[i][2],
                       ScnWrites[i][1])

NextScn ==
    \/ ScnOpen
    \/ ScnWrite
    \/ Sync
    \/ Close

SpecScn == Init /\ [][NextScn]_vars

-----------------------------------------------------------------------------
(* The whole method table, with the calls the engine issues: offsets, amounts
   and sizes that are not negative, two primary databases, a journal. *)
VfsNames ==
    { [path |-> "main.db",
       query |-> Param("ptr", 1) \o Param("sz", 1) \o Param("max", MaxCap)
                 \o Param("fd", 7) \o Param("threshold", MaxThreshold)],
      [path |-> "main.db", query |-> Param("ptr", 1) \o Param("sz", 1)],
      OtherName,
      JournalName }

VfsOpen ==
    \E zName \in VfsNames, flags \in OpenFlags :
        /\ FlagAnd(flags, SQLITE_OPEN_MAIN_DB) = 0 => zName = JournalName
        /\ auroraOpen(zName, flags)

VfsWrite ==
    \E iOfst \in 0 .. MaxCap, iAmt \in 0 .. 1, b \in Bytes :
        /\ p.szWritten + iAmt <= MaxWritten
        /\ auroraWrite([k \in 1 .. iAmt |-> b], iAmt, iOfst)

VfsTruncate == \E size \in 0 .. MaxCap : auroraTruncate(size)

VfsRead == \E iOfst \in 0 .. MaxCap - 1 : auroraRead(1, iOfst)

CheckReservedLock == auroraCheckReservedLock

FileControl ==
    \E op \in {SQLITE_FCNTL_VFSNAME, SQLITE_FCNTL_VFSNAME + 1} : auroraFileControl(op)

SectorSize == auroraSectorSize

DeviceCharacteristics == auroraDeviceCharacteristics

ShmMap == auroraShmMap

ShmLock == auroraShmLock

ShmBarrier == auroraShmBarrier

ShmUnmap == auroraShmUnmap

Fetch == \E iOfst \in {0, MaxCap - 1} : auroraFetch(iOfst, 1)

Unfetch == auroraUnfetch

Access == \E zPath \in Paths : auroraAccess(zPath)

NextVfs ==
    \/ VfsOpen
    \/ VfsWrite
    \/ VfsTruncate
    \/ Sync
    \/ VfsRead
    \/ FileSize
    \/ Lock
    \/ Unlock
    \/ CheckReservedLock
    \/ FileControl
    \/ SectorSize
    \/ DeviceCharacteristics
    \/ ShmMap
    \/ ShmLock
    \/ ShmBarrier
    \/ ShmUnmap
    \/ Fetch
    \/ Unfetch
    \/ Close
    \/ Access

SpecVfs == Init /\ [][NextVfs]_vars

-----------------------------------------------------------------------------
(* The methods of the VFS, called while a handle of either mode is open and
   while none is. *)
MxPathname == 1024
(* relative path names by their characters *)
PathStrings == {<<"m">>, <<"m", ".", "d">>}
NBytes == {MaxAmt}

Delete == \E zPath \in Paths : auroraDelete(zPath)

FullPathname ==
    \E zPath \in PathStrings :
        \E nOut \in {Len(zPath), MxPathname + 1} :
            auroraFullPathname(zPath, nOut)

DlOpen == auroraDlOpen

DlError == auroraDlError

DlSym == auroraDlSym

DlClose == auroraDlClose

Randomness == \E nByte \in NBytes : auroraRandomness(nByte)

Sleep == \E nMicro \in NBytes : auroraSleep(nMicro)

CurrentTime == auroraCurrentTime

GetLastError == auroraGetLastError

CurrentTimeInt64 == auroraCurrentTimeInt64

NextProv ==
    \/ VfsOpen
    \/ Close
    \/ Access
    \/ Delete
    \/ FullPathname
    \/ DlOpen
    \/ DlError
    \/ DlSym
    \/ DlClose
    \/ Randomness
    \/ Sleep
    \/ CurrentTime
    \/ GetLastError
    \/ CurrentTimeInt64

SpecProv == Init /\ [][NextProv]_vars

-----------------------------------------------------------------------------
(* Vocabulary of the properties.  A step is recognised by the call record it
   leaves: last' is the call the step made, p and mem the handle and the buffer
   before it, p' and mem' after it.  A call that faults never returns; the
   postconditions below are those of the calls that return. *)

MemoryBacked == p.isAurMmap # 0
Returned == last'.rc # "CRASH"
WriteStep == pc = "open" /\ MemoryBacked /\ last'.op = "write" /\ Returned
TruncateStep == pc = "open" /\ MemoryBacked /\ last'.op = "truncate" /\ Returned
SyncStep == pc = "open" /\ MemoryBacked /\ last'.op = "sync"
OpenMainStep == last'.op = "open" /\ FlagAnd(last'.flags, SQLITE_OPEN_MAIN_DB) # 0
WriteEnd == last'.ofs + last'.amt
(* the bytes of the write are in the buffer and no other byte changed *)
WriteLanded ==
    \A i \in DOMAIN mem :
        mem'[i] = IF i >= last'.ofs /\ i < WriteEnd
                  THEN last'.data[i - last'.ofs + 1] ELSE mem[i]
HasKey(zName, key) == \E i \in 1 .. Len(zName.query) : zName.query[i][1] = key

(* C1: on a Memory-Backed handle that is open, 0 <= size <= capacity, whatever
   integers Write, Truncate and Sync were called with. *)
C1_SizeWithinCapacity ==
    (pc = "open" /\ MemoryBacked) => (0 <= p.sz /\ p.sz <= p.szMax)

(* C2: a Write with offset+amount <= capacity leaves size = max(old size,
   offset+amount), the bytes [offset, offset+amount) equal to the data and every
   other byte of the buffer unchanged, whether or not a commit it triggered
   succeeded. *)
C2_WriteWithinCapacity ==
    [][(WriteStep /\ WriteEnd <= p.szMax)
          => (p'.sz = Max(p.sz, WriteEnd) /\ WriteLanded)]_vars

(* C3: a Write with offset+amount > capacity returns Full, changes neither size
   nor the buffer nor bytesSinceCommit, and invokes no commit. *)
C3_WriteBeyondCapacity ==
    [][(pc = "open" /\ MemoryBacked /\ last'.op = "write" /\ WriteEnd > p.szMax)
          => (/\ last'.rc = "FULL"
              /\ last'.commits = 0
              /\ p' = p
              /\ mem' = mem
              /\ pc' = pc)]_vars
C3_Witness ==
    /\ pc = "open" /\ MemoryBacked
    /\ last.op = "write" /\ last.rc = "FULL"
    /\ last.ofs >= 0 /\ last.amt > 0 /\ last.ofs + last.amt > p.szMax
    /\ p.szWritten > 0

(* C4: with threshold T > 0, an accepted Write invokes the commit exactly once
   when the bytes written since the last successful commit, this write included,
   exceed T, and not at all otherwise.  A commit that succeeds leaves the counter
   0 and the Write returns OK; one that fails leaves the counter at its
   incremented value, the Write returns SnapshotError, the written bytes are in
   the buffer and the size is the one the write set (the larger of the old size
   and the end of the write; a size that an earlier Truncate made negative is
   left as it was, see C1). *)
C4_ThresholdCommit ==
    [][(WriteStep /\ p.szThreshold > 0 /\ last'.rc # "FULL")
          => (/\ last'.commits = IF owed + last'.amt > p.szThreshold THEN 1 ELSE 0
              /\ last'.commits = 0
                    => last'.rc = "OK" /\ p'.szWritten = p.szWritten + last'.amt
              /\ (last'.commits = 1 /\ last'.commitOk)
                    => last'.rc = "OK" /\ p'.szWritten = 0
              /\ (last'.commits = 1 /\ ~last'.commitOk)
                    => /\ last'.rc = "SNAPSHOT"
                       /\ p'.szWritten = p.szWritten + last'.amt
                       /\ WriteLanded
                       /\ p'.sz = IF p.sz < 0 THEN p.sz ELSE Max(p.sz, WriteEnd))]_vars
C4_Witness ==
    /\ pc = "open" /\ MemoryBacked /\ p.szThreshold > 0
    /\ last.op = "write" /\ last.commits = 1 /\ ~last.commitOk
    /\ last.rc = "SNAPSHOT"
    /\ last.ofs >= 0 /\ last.amt > 0 /\ last.amt <= p.szThreshold
    /\ p.szWritten > p.szThreshold
    /\ mem[last.ofs] = last.data[1]

(* C5: Sync invokes the commit exactly when checkpointOnSync is true and
   bytesSinceCommit > 0.  A commit that succeeds leaves bytesSinceCommit 0 and
   Sync returns OK; one that fails makes Sync return SnapshotError and leaves
   bytesSinceCommit, size and the buffer as they were. *)
C5_SyncCommit ==
    [][SyncStep
          => (/\ last'.commits = IF p.bCkptOnSync /\ p.szWritten > 0 THEN 1 ELSE 0
              /\ mem' = mem
              /\ p'.sz = p.sz
              /\ last'.commits = 0 => last'.rc = "OK" /\ p' = p
              /\ (last'.commits = 1 /\ last'.commitOk)
                    => last'.rc = "OK" /\ p'.szWritten = 0
              /\ (last'.commits = 1 /\ ~last'.commitOk)
                    => last'.rc = "SNAPSHOT" /\ p' = p)]_vars
C5_Witness ==
    /\ pc = "open" /\ MemoryBacked
    /\ last.op = "sync" /\ last.commits = 0
    /\ ~p.bCkptOnSync /\ p.szWritten > 0

(* C6: Truncate(newSize) with size < newSize <= capacity zeroes the bytes
   [old size, newSize), leaves every other byte unchanged and sets size to
   newSize; with newSize > capacity it returns Full and changes neither size nor
   the buffer. *)
C6_TruncateGrowth ==
    [][TruncateStep
          => (/\ (p.sz < last'.amt /\ last'.amt <= p.szMax)
                    => /\ last'.rc = "OK"
                       /\ p'.sz = last'.amt
                       /\ \A i \in DOMAIN mem :
                            mem'[i] = IF i >= p.sz /\ i < last'.amt THEN 0 ELSE mem[i]
              /\ last'.amt > p.szMax
                    => last'.rc = "FULL" /\ p' = p /\ mem' = mem)]_vars
C6_Witness ==
    /\ pc = "open" /\ MemoryBacked
    /\ last.op = "truncate" /\ last.rc = "OK"
    /\ p.sz = last.amt /\ p.sz = p.szMax /\ p.sz >= 2
    /\ mem[0] # 0 /\ mem[p.sz - 1] = 0
    /\ p.szWritten > 0

(* C7: bytesSinceCommit of a handle never decreases, except in a Write or Sync
   whose commit succeeded, and there it becomes 0. *)
C7_CounterMonotone ==
    [][(last'.op # "open" /\ p'.szWritten < p.szWritten)
          => (/\ last'.op \in {"write", "sync"}
              /\ last'.commits = 1
              /\ last'.commitOk
              /\ p'.szWritten = 0)]_vars
C7_Witness ==
    /\ pc = "open" /\ MemoryBacked
    /\ last.op = "sync" /\ last.commits = 1 /\ last.commitOk
    /\ p.szWritten = 0 /\ p.szThreshold > 0

(* C8: an open of the primary database fails with CantOpen when ptr is absent or
   zero, sz is absent or negative, maxsz < sz, or fd is absent or zero; it then
   starts no checkpoint session, does not open the delegate handle and leaves the
   process-wide name as it was. *)
C8_BadParameters ==
    [][(/\ OpenMainStep
        /\ LET zName == last'.name[1]
               s == UriInt64(zName, "sz", -1)
           IN  \/ UriInt64(zName, "ptr", 0) = 0
               \/ s < 0
               \/ UriInt64(zName, "maxsz", s) < s
               \/ UriInt64(zName, "fd", 0) = 0)
          => (/\ last'.rc = "CANTOPEN"
              /\ last'.starts = 0
              /\ last'.real = "none"
              /\ mainDbName' = mainDbName)]_vars

(* C9: the capacity of a Memory-Backed handle is the value of maxsz= when it is
   given (and >= sz), and sz= when it is not (for names that carry the
   documented parameters only). *)
C9_CapacityFromMaxsz ==
    [][(OpenMainStep /\ last'.rc = "OK")
          => LET zName == last'.name[1]
                 s     == UriInt64(zName, "sz", -1)
                 maxsz == UriInt64(zName, "maxsz", s)
             IN  (~HasKey(zName, "max") /\ maxsz >= s) => p'.szMax = maxsz]_vars

(* C10: after the open with sz=100, maxsz=1000, fd=7, threshold=50 and with
   commits that succeed: Write(60 bytes at 0) commits, counter 0, size 60; then
   Write(10 bytes at 60) does not commit, counter 10, size 70; then Write(45
   bytes at 70) commits, size 115. *)
C10_Scenario ==
    /\ scn = 1 => last.commits = 1 /\ p.szWritten = 0 /\ p.sz = 60
    /\ scn = 2 => last.commits = 0 /\ p.szWritten = 10 /\ p.sz = 70
    /\ scn = 3 => last.commits = 1 /\ p.sz = 115

(* C11, as stated: an Access for a name that some primary open has recorded
   returns success with "exists" and consults no delegate, also after the handle
   was closed; an Access for a name never recorded returns what the delegate's
   xAccess reported. *)
C11_AccessOnceRecorded ==
    [][(last'.op = "access")
          => IF last'.path \in recorded
             THEN last'.rc = "OK" /\ last'.res = 1 /\ last'.real = "none"
             ELSE /\ last'.real = "xAccess"
                  /\ last'.rc = last'.realRc
                  /\ last'.res = last'.realRes]_vars

(* C11, amended: an Access for the name the record holds at the time of the
   query (the name of the latest primary open that passed validation and
   session start) returns success with "exists" and consults no delegate, also
   after the handle was closed; an Access for any other name returns what the
   delegate's xAccess reported. *)
C11_AccessRecordedName ==
    [][(last'.op = "access")
          => IF mainDbName # <<>> /\ last'.path = mainDbName[1]
             THEN last'.rc = "OK" /\ last'.res = 1 /\ last'.real = "none"
             ELSE /\ last'.real = "xAccess"
                  /\ last'.rc = last'.realRc
                  /\ last'.res = last'.realRes]_vars
C11_Witness ==
    /\ pc = "closed" /\ p.fileName # <<>> /\ MemoryBacked
    /\ last.op = "access" /\ mainDbName = <<last.path>>
    /\ last.rc = "OK" /\ last.res = 1 /\ last.real = "none"

(* the method of the delegate handle that stands behind a per-file method *)
DelegateOf(op) ==
    CASE op = "read" -> "xRead"
      [] op = "write" -> "xWrite"
      [] op = "truncate" -> "xTruncate"
      [] op = "sync" -> "xSync"
      [] op = "filesize" -> "xFileSize"
      [] op = "lock" -> "xLock"
      [] op = "unlock" -> "xUnlock"
      [] op = "checkReservedLock" -> "xCheckReservedLock"
      [] op = "fileControl" -> "xFileControl"
      [] op = "sectorSize" -> "xSectorSize"
      [] op = "deviceCharacteristics" -> "xDeviceCharacteristics"
      [] op = "shmMap" -> "xShmMap"
      [] op = "shmLock" -> "xShmLock"
      [] op = "shmUnmap" -> "xShmUnmap"
      [] op = "fetch" -> "xFetch"
      [] op = "unfetch" -> "xUnfetch"
      [] op = "close" -> "xClose"
      [] OTHER -> "none"
DelegatedStep == pc = "open" /\ p.isAurMmap = 0 /\ DelegateOf(last'.op) # "none"

(* C12: on a Delegated-mode handle each of read, write, truncate, sync,
   filesize, lock, unlock, checkReservedLock, fileControl, sectorSize,
   deviceCharacteristics, shmMap, shmLock, shmUnmap, fetch, unfetch and close
   calls the same method of the delegate handle once and returns what it
   returned (status, and value where the method yields one); so does Lock and
   so does Unlock. *)
C12_DelegatedVerbatim ==
    [][DelegatedStep
          => (/\ last'.real = DelegateOf(last'.op)
              /\ last'.rc = last'.realRc
              /\ last'.res = last'.realRes)]_vars

(* C13: while the handle is open its delegate handle is open, and once the
   handle has been closed the delegate handle is closed too, in Memory-Backed
   mode as in Delegated mode. *)
C13_DelegateLifetime ==
    /\ pc = "open" => realOpen
    /\ pc = "closed" => ~realOpen

(* C14: on a Memory-Backed handle Lock, Unlock and CheckReservedLock return
   success without a call to the delegate, CheckReservedLock reporting no lock;
   ShmMap and ShmLock return the shared-memory I/O errors; ShmUnmap, Unfetch and
   Close return success.  None of these, nor Read, FileSize or Fetch, changes
   size, capacity, the buffer or bytesSinceCommit, and none invokes a commit. *)
C14_MemoryBackedStubs ==
    [][(/\ pc = "open" /\ MemoryBacked
        /\ last'.op \in {"lock", "unlock", "checkReservedLock", "shmMap", "shmLock",
                         "shmUnmap", "unfetch", "close", "read", "filesize", "fetch"})
          => (/\ last'.op \in {"lock", "unlock", "checkReservedLock"}
                    => last'.rc = "OK" /\ last'.real = "none"
              /\ last'.op = "checkReservedLock" => last'.res = 0
              /\ last'.op = "shmMap" => last'.rc = "IOERR_SHMMAP"
              /\ last'.op = "shmLock" => last'.rc = "IOERR_SHMLOCK"
              /\ last'.op \in {"shmUnmap", "unfetch", "close"} => last'.rc = "OK"
              /\ p'.sz = p.sz
              /\ p'.szMax = p.szMax
              /\ p'.szWritten = p.szWritten
              /\ mem' = mem
              /\ last'.commits = 0)]_vars
C14_Witness ==
    /\ pc = "open" /\ MemoryBacked
    /\ last.op = "shmMap" /\ last.rc = "IOERR_SHMMAP" /\ last.real = "none"
    /\ p.szWritten > 0 /\ p.sz > 1 /\ mem[1] # 0

(* the parameters of a name are valid as documented: ptr not zero, sz not
   negative, maxsz (sz when absent) not below sz, fd not zero *)
DocValid(zName) ==
    LET s == UriInt64(zName, "sz", -1) IN
    /\ UriInt64(zName, "ptr", 0) # 0
    /\ s >= 0
    /\ UriInt64(zName, "maxsz", s) >= s
    /\ UriInt64(zName, "fd", 0) # 0

(* C15: an open of the primary database (under a name that carries documented
   parameters only) starts the checkpoint session once when
   ptr, sz, maxsz and fd are valid and not at all when one of them is not (the
   start comes after their validation); the delegate open is attempted only
   after a start that succeeded.  When the start fails Open returns Internal,
   the delegate open is not attempted and the recorded name is left as it was;
   when it succeeds Open returns the status of the delegate open. *)
C15_SessionStart ==
    [][(OpenMainStep /\ ~HasKey(last'.name[1], "max"))
          => (/\ last'.starts = IF DocValid(last'.name[1]) THEN 1 ELSE 0
              /\ last'.real = "xOpen" => last'.starts = 1 /\ last'.startOk
              /\ (last'.starts = 1 /\ ~last'.startOk)
                    => /\ last'.rc = "INTERNAL"
                       /\ last'.real = "none"
                       /\ mainDbName' = mainDbName
              /\ (last'.starts = 1 /\ last'.startOk)
                    => last'.real = "xOpen" /\ last'.rc = last'.realRc)]_vars

(* C16: with threshold T > 0, once a Write has returned SnapshotError every
   accepted Write after it, of whatever amount (0 bytes included), invokes the
   commit, until a commit of a Write or of a Sync succeeds; and no accepted
   Write returns OK with bytesSinceCommit > T. *)
C16_CommitRetried ==
    [][(WriteStep /\ p.szThreshold > 0 /\ last'.rc # "FULL")
          => (/\ snapFailed => last'.commits = 1
              /\ last'.rc = "OK" => p'.szWritten <= p.szThreshold)]_vars
C16_Witness ==
    /\ pc = "open" /\ MemoryBacked /\ p.szThreshold > 0
    /\ last.op = "write" /\ last.amt = 0 /\ last.commits = 1 /\ ~last.commitOk
    /\ last.rc = "SNAPSHOT" /\ snapFailed
    /\ p.szWritten > p.szThreshold

(* C17: with threshold = 0 no Write invokes a commit, and every accepted Write
   adds its amount to bytesSinceCommit; a Sync with checkpointOnSync true then
   invokes a commit exactly when a Write of at least one byte has been accepted
   since the last successful commit (owed > 0). *)
C17_ThresholdZero ==
    [][(pc = "open" /\ MemoryBacked /\ p.szThreshold = 0)
          => (/\ (last'.op = "write" /\ Returned)
                    => /\ last'.commits = 0
                       /\ last'.rc # "FULL"
                            => p'.szWritten = p.szWritten + last'.amt
              /\ (last'.op = "sync" /\ p.bCkptOnSync)
                    => last'.commits = IF owed > 0 THEN 1 ELSE 0)]_vars
C17_Witness ==
    /\ pc = "open" /\ MemoryBacked /\ p.szThreshold = 0 /\ p.bCkptOnSync
    /\ last.op = "sync" /\ last.commits = 1 /\ ~last.commitOk
    /\ owed > 1 /\ p.szWritten = owed

(* C18: Truncate(newSize) with newSize <= size sets size to newSize and
   changes no byte of the buffer.  When a Write at an offset o beyond the size
   regrows the file, the bytes [size, o) keep the values they held and lie
   inside the file; when a Truncate regrows it, the bytes [size, newSize) are
   zero. *)
C18_StaleRegrowth ==
    [][/\ (TruncateStep /\ last'.amt <= p.sz)
            => last'.rc = "OK" /\ p'.sz = last'.amt /\ mem' = mem
       /\ (WriteStep /\ last'.rc # "FULL" /\ last'.ofs > p.sz /\ p'.sz > p.sz)
            => /\ p'.sz >= last'.ofs
               /\ \A i \in DOMAIN mem :
                    (i >= p.sz /\ i < last'.ofs) => mem'[i] = mem[i]
       /\ (TruncateStep /\ last'.amt > p.sz /\ last'.rc = "OK")
            => /\ p'.sz = last'.amt
               /\ \A i \in DOMAIN mem :
                    (i >= p.sz /\ i < last'.amt) => mem'[i] = 0]_vars
C18_Witness ==
    /\ pc = "open" /\ MemoryBacked
    /\ last.op = "write" /\ last.rc = "OK"
    /\ last.sz0 >= 0 /\ last.ofs > last.sz0 /\ last.amt > 0
    /\ p.sz = last.ofs + last.amt
    /\ mem[last.sz0] # 0

(* C19: a Truncate on a Memory-Backed handle leaves bytesSinceCommit as it was
   and invokes no commit, whether it shrinks, grows or returns Full; so a Sync
   that comes with no byte accepted since the last successful commit, whatever
   Truncates changed the size and the buffer in between, invokes no commit. *)
C19_TruncateNotCounted ==
    [][/\ TruncateStep
            => /\ p'.szWritten = p.szWritten
               /\ last'.commits = 0
               /\ last'.rc \in {"OK", "FULL"}
       /\ (SyncStep /\ owed = 0)
            => last'.commits = 0 /\ last'.rc = "OK"]_vars
C19_Witness ==
    /\ pc = "open" /\ MemoryBacked /\ p.bCkptOnSync
    /\ last.op = "sync" /\ last.commits = 0 /\ last.rc = "OK"
    /\ owed = 0 /\ p.szWritten = 0
    /\ p.sz = 0 /\ mem[0] # 0

(* C20: an open of the primary database that passed validation and started
   its session records its name whatever the delegate open then returns (Open
   returns that status); an Access for the recorded name reports "exists"
   without the delegate, also when the delegate open failed and no handle is
   open; an Access for a name recorded earlier and replaced since returns what
   the delegate's xAccess reported. *)
C20_NameBeforeDelegateOpen ==
    [][/\ (OpenMainStep /\ last'.starts = 1 /\ last'.startOk)
            => /\ mainDbName' = <<CStr(last'.name[1])>>
               /\ last'.real = "xOpen"
               /\ last'.rc = last'.realRc
       /\ (last'.op = "access" /\ mainDbName = <<last'.path>>)
            => last'.rc = "OK" /\ last'.res = 1 /\ last'.real = "none"
       /\ (last'.op = "access" /\ last'.path \in recorded
                              /\ mainDbName # <<last'.path>>)
            => /\ last'.real = "xAccess"
               /\ last'.rc = last'.realRc
               /\ last'.res = last'.realRes]_vars
(* the latest primary open replaced an earlier name and failed in the delegate
   open; Access reports its name present *)
C20_Witness ==
    /\ pc = "closed" /\ MemoryBacked /\ ~realOpen
    /\ p.fileName = mainDbName
    /\ Cardinality(recorded) = 2
    /\ last.op = "access" /\ mainDbName = <<last.path>>
    /\ last.rc = "OK" /\ last.res = 1 /\ last.real = "none"

(* the method of the wrapped VFS that stands behind a method of the VFS *)
ProviderOf(op) ==
    CASE op = "delete" -> "xDelete"
      [] op = "fullPathname" -> "xFullPathname"
      [] op = "dlOpen" -> "xDlOpen"
      [] op = "dlError" -> "xDlError"
      [] op = "dlSym" -> "xDlSym"
      [] op = "dlClose" -> "xDlClose"
      [] op = "randomness" -> "xRandomness"
      [] op = "sleep" -> "xSleep"
      [] op = "currentTime" -> "xCurrentTime"
      [] op = "getLastError" -> "xGetLastError"
      [] op = "currentTimeInt64" -> "xCurrentTimeInt64"
      [] OTHER -> "none"

(* C21: each of delete, fullPathname, dlOpen, dlError, dlSym, dlClose,
   randomness, sleep, currentTime, getLastError and currentTimeInt64 calls the
   same method of the wrapped VFS once and returns what it returned (status,
   and value where the method yields one), whether a handle is open, and in
   which mode, or not; so does fullPathname. *)
C21_ProviderForwarded ==
    [][(ProviderOf(last'.op) # "none")
          => (/\ last'.real = ProviderOf(last'.op)
              /\ last'.rc = last'.realRc
              /\ last'.res = last'.realRes)]_vars

====
